---- MODULE Spec2Model ----
(***************************************************************************)
(* Model of ETL-pipeline-TwelveData-no-orchestration/main.py: the script   *)
(* driver, extract, transform_hourly, transform_technical, the two         *)
(* create_*_table functions and load_hourly / load_technical, together     *)
(* with the PostgreSQL session the load functions talk to.                 *)
(*                                                                         *)
(* Values are tagged the way Python types them: [t |-> "str", v |-> chars],*)
(* "float", "int", "datetime".  A text is a sequence of one-character      *)
(* strings; a JSON object whose key order matters (an observation record)  *)
(* is a sequence of <<key, value>> pairs in insertion order.               *)
(***************************************************************************)
EXTENDS Integers, Sequences, FiniteSets, TLC

\* ------------------------------------------------------------------ bounds
NumTickers == 2        \* length of the prefix of `tickers` that is iterated
NumIndicators == 2     \* length of the prefix of `technical_indicators`
MaxLen == 2            \* longest "values" sequence / batch that is enumerated

\* ------------------------------------------------------- program constants
tickers == SubSeq(<<"SPY", "XOM", "USDX", "VIXY", "GLD", "QQQ", "ARKK", "IBIT">>, 1, NumTickers)

technical_indicators == SubSeq(<<"adx", "rsi", "percent_b", "ema">>, 1, NumIndicators)

LongPause == 100

ShortPause == 60

\* --------------------------------------------------------- Python values
Str(s) == [t |-> "str", v |-> s]

PyFloat(m) == [t |-> "float", v |-> m]

PyInt(n) == [t |-> "int", v |-> n]

PyDatetime(d) == [t |-> "datetime", v |-> d]

\* The value of `e` in {F(v) : v \in {e}}: the argument is computed once
\* before F uses it.
The(S) == CHOOSE y \in S : TRUE

Ok(x) == [err |-> "none", val |-> x]

Err(e) == [err |-> e, val |-> PyInt(0)]

Digits == {"0", "1", "2", "3", "4", "5", "6", "7", "8", "9"}

DigitVal == ("0" :> 0) @@ ("1" :> 1) @@ ("2" :> 2) @@ ("3" :> 3) @@ ("4" :> 4) @@ ("5" :> 5) @@ ("6" :> 6) @@ ("7" :> 7) @@ ("8" :> 8) @@ ("9" :> 9)

IsDigits(s) == \A k \in 1..Len(s) : s[k] \in Digits

\* The number the first k digits of s spell.
RECURSIVE NatFrom(_, _)
NatFrom(s, k) == IF k = 0 THEN 0 ELSE NatFrom(s, k - 1) * 10 + DigitVal[s[k]]

Nat10(s) == NatFrom(s, Len(s))

RECURSIVE Pow10(_)
Pow10(n) == IF n = 0 THEN 1 ELSE 10 * Pow10(n - 1)

\* A decimal number m * 10^-e, kept with no trailing fractional zero so that
\* equal numbers have equal representations.
RECURSIVE Norm(_, _)
Norm(m, e) == IF e > 0 /\ m % 10 = 0 THEN Norm(m \div 10, e - 1) ELSE <<m, e>>

HasSign(s) == Len(s) > 0 /\ s[1] \in {"-", "+"}

Unsigned(s) == IF HasSign(s) THEN Tail(s) ELSE s

SignOf(s) == IF HasSign(s) /\ s[1] = "-" THEN -1 ELSE 1

DotAt(s) == {k \in 1..Len(s) : s[k] = "."}

\* float(x): a str of the form [+-]digits[.digits] (at least one digit),
\* an int or a float; anything else raises.
py_float(x) ==
    IF x.t = "float" THEN Ok(x)
    ELSE IF x.t = "int" THEN Ok(PyFloat(<<x.v, 0>>))
    ELSE IF x.t # "str" THEN Err("TypeError")
    ELSE LET u == Unsigned(x.v)
             d == DotAt(u)
             p == IF d = {} THEN Len(u) + 1 ELSE CHOOSE k \in d : TRUE
             ip == SubSeq(u, 1, p - 1)
             fp == SubSeq(u, p + 1, Len(u))
         IN  IF Cardinality(d) > 1 \/ ~IsDigits(ip) \/ ~IsDigits(fp) \/ Len(ip) + Len(fp) = 0
             THEN Err("ValueError")
             ELSE Ok(PyFloat(Norm(SignOf(x.v) * Nat10(ip \o fp), Len(fp))))

\* int(x): a str of the form [+-]digits, an int, or a float (truncated
\* toward zero); "1.5" raises ValueError.
py_int(x) ==
    IF x.t = "int" THEN Ok(x)
    ELSE IF x.t = "float"
         THEN LET a == IF x.v[1] < 0 THEN -x.v[1] ELSE x.v[1]
                  q == a \div Pow10(x.v[2])
              IN  Ok(PyInt(IF x.v[1] < 0 THEN -q ELSE q))
    ELSE IF x.t # "str" THEN Err("TypeError")
    ELSE LET u == Unsigned(x.v)
         IN  IF Len(u) = 0 \/ ~IsDigits(u) THEN Err("ValueError")
             ELSE Ok(PyInt(SignOf(x.v) * Nat10(u)))

\* ---------------------------------------------------------------- strptime
\* The runs of digits of a text and the characters between them.
RECURSIVE Fields(_, _, _)
Fields(s, cur, acc) ==
    IF s = <<>> THEN Append(acc, cur)
    ELSE IF Head(s) \in Digits THEN Fields(Tail(s), Append(cur, Head(s)), acc)
    ELSE Fields(Tail(s), <<>>, Append(acc, cur))

Separators(s) == SelectSeq(s, LAMBDA c : c \notin Digits)

IsLeap(y) == (y % 4 = 0 /\ y % 100 # 0) \/ y % 400 = 0

DaysIn(y, m) == IF m = 2 THEN (IF IsLeap(y) THEN 29 ELSE 28)
                ELSE IF m \in {4, 6, 9, 11} THEN 30 ELSE 31

\* datetime.strptime(x, "%Y-%m-%d %H:%M:%S"): four digits of year, one or two
\* digits for each other field, the literal separators, a real calendar day.
strptime(x) ==
    IF x.t # "str" THEN Err("TypeError")
    ELSE IF Separators(x.v) # <<"-", "-", " ", ":", ":">> THEN Err("ValueError")
    ELSE The({IF Len(f[1]) # 4 \/ \E k \in 2..6 : Len(f[k]) \notin {1, 2} THEN Err("ValueError")
              ELSE The({IF n[1] < 1 \/ n[2] \notin 1..12 \/ n[3] < 1 \/ n[3] > DaysIn(n[1], n[2])
                           \/ n[4] > 23 \/ n[5] > 59 \/ n[6] > 59 THEN Err("ValueError")
                        ELSE Ok(PyDatetime(n)) :
                        n \in {[k \in 1..Len(f) |-> Nat10(f[k])]}}) :
              f \in {Fields(x.v, <<>>, <<>>)}})

\* ------------------------------------------------------------------- dicts
HasKey(d, k) == \E p \in 1..Len(d) : d[p][1] = k

KeyPos(d, k) == CHOOSE p \in 1..Len(d) : d[p][1] = k

Get(d, k) == d[KeyPos(d, k)][2]

\* d[k] = x: an existing key keeps its position, a new key goes last.
Put(d, k, x) == IF HasKey(d, k) THEN [d EXCEPT ![KeyPos(d, k)] = <<k, x>>] ELSE Append(d, <<k, x>>)

Keys(d) == [p \in 1..Len(d) |-> d[p][1]]

\* ------------------------------------------------------------ transforms
\* Variant: the volume decoded with float() like the prices.
ConvVolumeAsFloat(k, x) == IF k = "datetime" THEN strptime(x) ELSE py_float(x)

\* The conversion each assignment of the loop body applies to value[k].
Conv(k, x) == IF k = "datetime" THEN strptime(x)
              ELSE IF k = "volume" THEN py_int(x)
              ELSE py_float(x)

HourlyFields == <<"datetime", "open", "high", "low", "close", "volume">>

\* value[k] = conv(value[k]) for the keys ks in turn; the first statement
\* that raises stops the record, the earlier assignments stay.
RECURSIVE ConvertFields(_, _)
ConvertFields(value, ks) ==
    IF ks = <<>> THEN [err |-> "none", value |-> value]
    ELSE IF ~HasKey(value, Head(ks)) THEN [err |-> "KeyError", value |-> value]
    ELSE The({IF r.err # "none" THEN [err |-> r.err, value |-> value]
              ELSE The({ConvertFields(v, Tail(ks)) : v \in {Put(value, Head(ks), r.val)}}) :
              r \in {Conv(Head(ks), Get(value, Head(ks)))}})

HasSymbol(rd) == "meta" \in DOMAIN rd /\ "symbol" \in DOMAIN rd.meta

\* The loop of transform_hourly from record p on: the records of
\* response_dict["values"] are rewritten in place.
RECURSIVE HourlyLoop(_, _)
HourlyLoop(rd, p) ==
    IF p > Len(rd.values) THEN [err |-> "none", dict |-> rd]
    ELSE IF ~HasSymbol(rd) THEN [err |-> "KeyError", dict |-> rd]
    ELSE The({IF r.err # "none" THEN [err |-> r.err, dict |-> [rd EXCEPT !.values[p] = r.value]]
              ELSE The({HourlyLoop(rd2, p + 1) : rd2 \in {[rd EXCEPT !.values[p] = r.value]}}) :
              r \in {ConvertFields(Put(rd.values[p], "symbol", rd.meta.symbol), HourlyFields)}})

HourlyBody(rd) ==
    IF "values" \notin DOMAIN rd THEN [err |-> "KeyError", dict |-> rd] ELSE HourlyLoop(rd, 1)

\* One pass of the loop body of transform_technical: the value_dict built
\* from one record, or the exception the body raises.
TechnicalRow(rd, value, indicator) ==
    IF ~HasSymbol(rd) \/ ~HasKey(value, "datetime") THEN [err |-> "KeyError", row |-> <<>>]
    ELSE The({IF d.err # "none" THEN [err |-> d.err, row |-> <<>>]
              ELSE IF Len(value) < 2 THEN [err |-> "IndexError", row |-> <<>>]
              ELSE IF ~HasKey(value, indicator) THEN [err |-> "KeyError", row |-> <<>>]
              ELSE The({IF f.err # "none" THEN [err |-> f.err, row |-> <<>>]
                        ELSE [err |-> "none",
                              row |-> << <<"symbol", rd.meta.symbol>>, <<"datetime", d.val>>,
                                         <<"indicator", Str(Keys(value)[2])>>, <<"value", f.val>> >>] :
                        f \in {py_float(Get(value, indicator))}}) :
              d \in {strptime(Get(value, "datetime"))}})

RECURSIVE TechnicalLoop(_, _, _, _)
TechnicalLoop(rd, indicator, p, value_list) ==
    IF p > Len(rd.values) THEN [err |-> "none", value_list |-> value_list]
    ELSE The({IF r.err # "none" THEN [err |-> r.err, value_list |-> value_list]
              ELSE The({TechnicalLoop(rd, indicator, p + 1, l) : l \in {Append(value_list, r.row)}}) :
              r \in {TechnicalRow(rd, rd.values[p], indicator)}})

TechnicalBody(rd, indicator) ==
    IF "values" \notin DOMAIN rd THEN [err |-> "KeyError", value_list |-> <<>>]
    ELSE TechnicalLoop(rd, indicator, 1, <<>>)

\* ------------------------------------------------------------------- store
TableNames == {"hourly_data", "technical_data"}

HourlySchema == [name |-> "hourly_data",
                 cols |-> <<"ticker", "datetime", "open", "high", "low", "close", "volume">>,
                 pk |-> {"ticker", "datetime"}]

TechnicalSchema == [name |-> "technical_data",
                    cols |-> <<"ticker", "datetime", "indicator", "value">>,
                    pk |-> {"ticker", "datetime", "indicator"}]

\* The %(name)s parameters of the two INSERT statements, in column order.
HourlyParams == <<"symbol", "datetime", "open", "high", "low", "close", "volume">>

TechnicalParams == <<"symbol", "datetime", "indicator", "value">>

NoTxn == [created |-> {}, rows |-> [n \in TableNames |-> {}]]

\* Tables a session sees: the committed ones and those of its transaction.
Visible(cat, tx) == cat \cup tx.created

Exists(cat, tx, name) == \E s \in Visible(cat, tx) : s.name = name

SchemaOf(cat, tx, name) == CHOOSE s \in Visible(cat, tx) : s.name = name

\* CREATE TABLE: fails when a table of that name is visible.
ExecCreate(cat, tx, schema) ==
    IF Exists(cat, tx, schema.name) THEN [err |-> "DuplicateTable", txn |-> tx]
    ELSE [err |-> "none", txn |-> [tx EXCEPT !.created = @ \cup {schema}]]

\* Variant: CREATE TABLE without the existence check.
create_hourly_table_unconditional(cat, tx) == ExecCreate(cat, tx, HourlySchema)

create_hourly_table(cat, tx) ==
    IF ~Exists(cat, tx, "hourly_data") THEN ExecCreate(cat, tx, HourlySchema)
    ELSE [err |-> "none", txn |-> tx]

create_technical_table(cat, tx) ==
    IF ~Exists(cat, tx, "technical_data") THEN ExecCreate(cat, tx, TechnicalSchema)
    ELSE [err |-> "none", txn |-> tx]

\* A value stored in a DECIMAL(10,2) column: rounded half away from zero to
\* two fractional digits; ten digits in all.
Decimal2(f) ==
    LET m == f.v[1]
        e == f.v[2]
        a == IF m < 0 THEN -m ELSE m
        q == IF e <= 2 THEN a * Pow10(2 - e)
             ELSE (a \div Pow10(e - 2)) + (IF 2 * (a % Pow10(e - 2)) >= Pow10(e - 2) THEN 1 ELSE 0)
    IN  IF q \div 100 >= Pow10(8) THEN Err("NumericValueOutOfRange")
        ELSE Ok(PyFloat(Norm(IF m < 0 THEN -q ELSE q, 2)))

\* The table row one INSERT builds from the named parameters of `row`.
BuildRow(schema, params, row) ==
    IF \E k \in 1..Len(params) : ~HasKey(row, params[k]) THEN [err |-> "KeyError", row |-> <<>>]
    ELSE LET raw == [k \in 1..Len(params) |-> Get(row, params[k])]
             dec == {k \in 1..Len(params) : raw[k].t = "float"}
         IN  IF \E k \in dec : Decimal2(raw[k]).err # "none"
             THEN [err |-> "NumericValueOutOfRange", row |-> <<>>]
             ELSE [err |-> "none",
                   row |-> [k \in 1..Len(params) |-> IF k \in dec THEN Decimal2(raw[k]).val ELSE raw[k]]]

ColPos(schema, c) == CHOOSE k \in 1..Len(schema.cols) : schema.cols[k] = c

SameKey(schema, r1, r2) == \A c \in schema.pk : r1[ColPos(schema, c)] = r2[ColPos(schema, c)]

\* Variant: INSERT ... ON CONFLICT DO NOTHING, a conflicting row is skipped.
ExecInsertIgnoreConflict(cat, tbls, tx, name, params, row) ==
    IF ~Exists(cat, tx, name) THEN [err |-> "UndefinedTable", txn |-> tx]
    ELSE LET schema == SchemaOf(cat, tx, name)
             b == BuildRow(schema, params, row)
         IN  IF b.err # "none" THEN [err |-> b.err, txn |-> tx]
             ELSE IF \E r \in tbls[name] \cup tx.rows[name] : SameKey(schema, r, b.row)
             THEN [err |-> "none", txn |-> tx]
             ELSE [err |-> "none", txn |-> [tx EXCEPT !.rows[name] = @ \cup {b.row}]]

\* INSERT INTO name VALUES (...): the row joins the transaction unless the
\* table is missing or a visible row has the same primary key.
ExecInsert(cat, tbls, tx, name, params, row) ==
    IF ~Exists(cat, tx, name) THEN [err |-> "UndefinedTable", txn |-> tx]
    ELSE LET schema == SchemaOf(cat, tx, name)
             b == BuildRow(schema, params, row)
         IN  IF b.err # "none" THEN [err |-> b.err, txn |-> tx]
             ELSE IF \E r \in tbls[name] \cup tx.rows[name] : SameKey(schema, r, b.row)
             THEN [err |-> "UniqueViolation", txn |-> tx]
             ELSE [err |-> "none", txn |-> [tx EXCEPT !.rows[name] = @ \cup {b.row}]]

\* psycopg2.extras.execute_batch: the statements run in order inside the
\* session's transaction; the first one that fails raises.
RECURSIVE execute_batch(_, _, _, _, _, _)
execute_batch(cat, tbls, tx, name, params, argslist) ==
    IF argslist = <<>> THEN [err |-> "none", txn |-> tx]
    ELSE The({IF r.err # "none" THEN r
              ELSE execute_batch(cat, tbls, r.txn, name, params, Tail(argslist)) :
              r \in {ExecInsert(cat, tbls, tx, name, params, Head(argslist))}})

\* conn.commit(): the transaction's tables and rows become the committed ones.
CommitCatalog(cat, tx) == cat \cup tx.created

CommitTables(tbls, tx) == [n \in TableNames |-> tbls[n] \cup tx.rows[n]]

\* ------------------------------------------------------------------ inputs
\* Texts the provider sends.
DT1 == <<"2", "0", "2", "4", "-", "0", "1", "-", "0", "1", " ", "0", "9", ":", "3", "0", ":", "0", "0">>

DT2 == <<"2", "0", "2", "4", "-", "0", "1", "-", "0", "1", " ", "1", "0", ":", "0", "0", ":", "0", "0">>

DT1Short == <<"2", "0", "2", "4", "-", "1", "-", "1", " ", "9", ":", "3", "0", ":", "0", "0">>

DTIso == <<"2", "0", "2", "4", "-", "0", "1", "-", "0", "1", "T", "0", "9", ":", "3", "0", ":", "0", "0">>

DTFeb30 == <<"2", "0", "2", "4", "-", "0", "2", "-", "3", "0", " ", "0", "9", ":", "3", "0", ":", "0", "0">>

BarRecord(dt, open, high, low, close, volume) ==
    << <<"datetime", Str(dt)>>, <<"open", Str(open)>>, <<"high", Str(high)>>,
       <<"low", Str(low)>>, <<"close", Str(close)>>, <<"volume", Str(volume)>> >>

RecA == BarRecord(DT1, <<"4", "7", "0", ".", "1">>, <<"4", "7", "1", ".", "0">>, <<"4", "6", "9", ".", "8">>, <<"4", "7", "0", ".", "5">>, <<"1", "0", "0", "0", "0", "0", "0">>)

RecB == BarRecord(DT2, <<"4", "7", "0", ".", "5">>, <<"4", "7", "2", ".", "2", "5">>, <<"4", "7", "0", ".", "1", "2", "5">>, <<"4", "7", "1">>, <<"-", "0">>)

\* The same moment as RecA in another spelling, other prices.
RecA2 == BarRecord(DT1Short, <<"1", ".", "0", "0", "5">>, <<".", "5">>, <<"0", ".", "9", "9", "4">>, <<"5", ".">>, <<"1", "2">>)

RecIso == BarRecord(DTIso, <<"4", "7", "0", ".", "1">>, <<"4", "7", "1", ".", "0">>, <<"4", "6", "9", ".", "8">>, <<"4", "7", "0", ".", "5">>, <<"1", "0", "0", "0", "0", "0", "0">>)

RecFeb30 == BarRecord(DTFeb30, <<"4", "7", "0", ".", "1">>, <<"4", "7", "1", ".", "0">>, <<"4", "6", "9", ".", "8">>, <<"4", "7", "0", ".", "5">>, <<"1", "0", "0", "0", "0", "0", "0">>)

RecBadLow == BarRecord(DT2, <<"4", "7", "0", ".", "1">>, <<"4", "7", "1", ".", "0">>, <<"n", "/", "a">>, <<"4", "7", "0", ".", "5">>, <<"1", "0", "0", "0", "0", "0", "0">>)

RecFracVolume == BarRecord(DT2, <<"4", "7", "0", ".", "1">>, <<"4", "7", "1", ".", "0">>, <<"4", "6", "9", ".", "8">>, <<"4", "7", "0", ".", "5">>, <<"1", ".", "5">>)

\* No volume key (the provider omits it for some instruments).
RecNoVolume == SubSeq(RecA, 1, 5)

\* A record that already carries a symbol key, ahead of the others.
RecWithSymbol == << <<"symbol", Str("OLD")>> >> \o RecB

IndRecord(dt, indicator, text) == << <<"datetime", Str(dt)>>, <<indicator, Str(text)>> >>

V552 == <<"5", "5", ".", "2">>

VNeg == <<"-", "0", ".", "3", "7", "5">>

Payload(symbol, values) == [meta |-> [symbol |-> Str(symbol)], values |-> values]

ErrorBody == [code |-> 429, message |-> "You have run out of API credits", status |-> "error"]

NoData == [none |-> TRUE]

SeqsUpTo(S, n) == UNION {[1..k -> S] : k \in 0..n}

\* Records of the full run: one well-formed record per request, one that
\* the normalizer rejects.
RunRecords(url) ==
    IF url.endpoint = "time_series" THEN {RecA, RecIso}
    ELSE {IndRecord(DT1, url.endpoint, V552), IndRecord(DTIso, url.endpoint, V552)}

\* What the provider may answer to requests.get(url): a status, whether the
\* body decodes as JSON, and the decoded body.
Responses(url) ==
    {[status |-> 200, decodes |-> TRUE, body |-> Payload(url.symbol, v)] : v \in SeqsUpTo(RunRecords(url), MaxLen)}
    \cup {[status |-> 429, decodes |-> TRUE, body |-> ErrorBody],
          [status |-> 502, decodes |-> FALSE, body |-> NoData]}

\* Payloads for the normalizers alone.
NormBarRecords == {RecA, RecB, RecA2, RecIso, RecFeb30, RecBadLow, RecFracVolume, RecNoVolume, RecWithSymbol}

NormIndRecords(indicator) ==
    {IndRecord(DT1, indicator, V552), IndRecord(DT2, indicator, VNeg),
     IndRecord(DTIso, indicator, V552), IndRecord(DT1, indicator, <<"n", "a", "n", "!">>),
     << <<"datetime", Str(DT1)>> >>,
     IndRecord(DT1, "other", V552),
     << <<"datetime", Str(DT1)>>, <<"extra", Str(VNeg)>>, <<indicator, Str(V552)>> >>,
     << <<indicator, Str(V552)>>, <<"datetime", Str(DT2)>> >>}

NormPayloads(stg, indicator) ==
    LET recs == IF stg = "hourly" THEN NormBarRecords ELSE NormIndRecords(indicator)
    IN  {Payload(sym, v) : sym \in {"SPY", "XOM"}, v \in SeqsUpTo(recs, MaxLen)}
        \cup {[values |-> v] : v \in SeqsUpTo(recs, 1)}
        \cup {ErrorBody}

\* Payloads and committed stores for the load functions alone.
StoreRecords(stg, indicator) ==
    IF stg = "hourly" THEN {RecA, RecB, RecA2}
    ELSE {IndRecord(DT1, indicator, V552), IndRecord(DT2, indicator, VNeg),
          IndRecord(DT1Short, indicator, VNeg)}

StorePayloads(stg, indicator) == {Payload("SPY", v) : v \in SeqsUpTo(StoreRecords(stg, indicator), MaxLen)}

\* The table row a committed record of an earlier run left behind.
HourlyRowOf(symbol, rec) ==
    BuildRow(HourlySchema, HourlyParams, HourlyBody(Payload(symbol, <<rec>>)).dict.values[1]).row

TechnicalRowOf(symbol, rec, indicator) ==
    BuildRow(TechnicalSchema, TechnicalParams, TechnicalBody(Payload(symbol, <<rec>>), indicator).value_list[1]).row

EarlierHourly == {HourlyRowOf("SPY", RecA), HourlyRowOf("SPY", RecB)}

EarlierTechnical == {TechnicalRowOf("SPY", IndRecord(DT1, technical_indicators[1], V552), technical_indicators[1]),
                     TechnicalRowOf("SPY", IndRecord(DT2, technical_indicators[1], V552), technical_indicators[1])}

\* Committed stores an earlier run can have left: each table absent, or
\* present with some of the earlier rows.
Stores ==
    {[catalog |-> c, tables |-> [n \in TableNames |-> IF n = "hourly_data" THEN h ELSE t]] :
        c \in SUBSET {HourlySchema, TechnicalSchema}, h \in SUBSET EarlierHourly, t \in SUBSET EarlierTechnical}

ConsistentStores ==
    {s \in Stores : /\ (HourlySchema \notin s.catalog => s.tables["hourly_data"] = {})
                    /\ (TechnicalSchema \notin s.catalog => s.tables["technical_data"] = {})}

FreshStore == [catalog |-> {}, tables |-> [n \in TableNames |-> {}]]

\* A store in which an earlier run of the script loaded SPY's first bar.
RerunStore == [catalog |-> {HourlySchema, TechnicalSchema},
               tables |-> [n \in TableNames |-> IF n = "hourly_data" THEN {HourlyRowOf("SPY", RecA)} ELSE {}]]

\* ------------------------------------------------------------------- state
VARIABLES
    pc,         \* where the script is: "extract", "transform", "connect", "schema", "batch",
                \* "commit", "close", "long_sleep", "short_sleep", "done", "aborted"
    stage,      \* "hourly": the first loop; "technical": the second
    i,          \* index of `ticker` in tickers
    j,          \* index of `technical_indicator` in technical_indicators
    data,       \* the driver's `data` / response_dict
    fetched,    \* response_dict as extract returned it
    status,     \* r.status_code of the last response, 0 before the first
    batch,      \* the list handed to load_hourly / load_technical
    stack,      \* the functions that are executing, outermost first
    conns,      \* number of open connections to the database
    txn,        \* the open session's transaction: tables created, rows inserted
    catalog,    \* committed table definitions
    tables,     \* committed rows of each table
    error,      \* the exception that ended the run, "none" while it runs
    log         \* what the run did so far: fetch, normalize, persist, sleep

vars == <<pc, stage, i, j, data, fetched, status, batch, stack, conns, txn, catalog, tables, error, log>>

store == <<catalog, tables>>

Url(stg, ti, ij) ==
    [endpoint |-> IF stg = "hourly" THEN "time_series" ELSE technical_indicators[ij], symbol |-> tickers[ti]]

url == Url(stage, i, j)

Event(op, u, secs) == [op |-> op, endpoint |-> u.endpoint, symbol |-> u.symbol, secs |-> secs]

NoUrl == [endpoint |-> "", symbol |-> ""]

\* Variant: the exception is caught and the iteration is wound up as if the
\* load had returned.
RaiseSwallowed(e) == pc' = "close" /\ error' = e

\* An exception nothing catches: the script ends.
Raise(e) == pc' = "aborted" /\ error' = e

Start(s) ==
    /\ stage = "hourly" /\ i = 1 /\ j = 1
    /\ data = NoData /\ fetched = NoData /\ status = 0
    /\ batch = <<>> /\ stack = <<>> /\ conns = 0 /\ txn = NoTxn
    /\ catalog = s.catalog /\ tables = s.tables
    /\ error = "none" /\ log = <<>>

Init == pc = "extract" /\ \E s \in {FreshStore, RerunStore} : Start(s)

\* data = extract(url)
extract ==
    /\ pc = "extract"
    /\ log' = Append(log, Event("fetch", url, 0))
    /\ \/ /\ Raise("ConnectionError")
          /\ UNCHANGED <<data, fetched, status>>
       \/ \E r \in Responses(url) :
            /\ status' = r.status
            /\ IF r.decodes
               THEN data' = r.body /\ fetched' = r.body /\ pc' = "transform" /\ error' = error
               ELSE Raise("JSONDecodeError") /\ UNCHANGED <<data, fetched>>
    /\ UNCHANGED <<stage, i, j, batch, stack, conns, txn, catalog, tables>>

transform_hourly ==
    /\ pc = "transform" /\ stage = "hourly"
    /\ \E r \in {HourlyBody(data)} :
           /\ data' = r.dict
           /\ IF r.err # "none"
              THEN Raise(r.err) /\ stack' = <<"transform_hourly">> /\ batch' = batch
              ELSE /\ batch' = r.dict.values
                   /\ stack' = <<"transform_hourly", "load_hourly">>
                   /\ pc' = "connect" /\ error' = error
    /\ log' = Append(log, Event("normalize", url, 0))
    /\ UNCHANGED <<stage, i, j, fetched, status, conns, txn, catalog, tables>>

\* Variant: the parsed rows are written back into response_dict["values"].
transform_technical_inplace ==
    /\ pc = "transform" /\ stage = "technical"
    /\ \E r \in {TechnicalBody(data, technical_indicators[j])} :
           IF r.err # "none"
           THEN Raise(r.err) /\ stack' = <<"transform_technical">> /\ batch' = batch /\ data' = data
           ELSE /\ batch' = r.value_list
                /\ data' = [data EXCEPT !.values = r.value_list]
                /\ stack' = <<"transform_technical", "load_technical">>
                /\ pc' = "connect" /\ error' = error
    /\ log' = Append(log, Event("normalize", url, 0))
    /\ UNCHANGED <<stage, i, j, fetched, status, conns, txn, catalog, tables>>

transform_technical ==
    /\ pc = "transform" /\ stage = "technical"
    /\ \E r \in {TechnicalBody(data, technical_indicators[j])} :
           IF r.err # "none"
           THEN Raise(r.err) /\ stack' = <<"transform_technical">> /\ batch' = batch
           ELSE /\ batch' = r.value_list
                /\ stack' = <<"transform_technical", "load_technical">>
                /\ pc' = "connect" /\ error' = error
    /\ log' = Append(log, Event("normalize", url, 0))
    /\ UNCHANGED <<stage, i, j, data, fetched, status, conns, txn, catalog, tables>>

\* conn = psycopg2.connect(...); curr = conn.cursor()
Connect ==
    /\ pc = "connect"
    /\ \/ Raise("OperationalError") /\ UNCHANGED <<conns, txn>>
       \/ conns' = conns + 1 /\ txn' = NoTxn /\ pc' = "schema" /\ error' = error
    /\ UNCHANGED <<stage, i, j, data, fetched, status, batch, stack, catalog, tables, log>>

\* create_hourly_table(curr) / create_technical_table(curr)
EnsureSchema(name) ==
    /\ pc = "schema"
    /\ \/ Raise("OperationalError") /\ txn' = txn
       \/ \E r \in {IF name = "hourly_data" THEN create_hourly_table(catalog, txn)
                    ELSE create_technical_table(catalog, txn)} :
              /\ txn' = r.txn
              /\ IF r.err # "none" THEN Raise(r.err) ELSE pc' = "batch" /\ error' = error
    /\ UNCHANGED <<stage, i, j, data, fetched, status, batch, stack, conns, catalog, tables, log>>

\* psycopg2.extras.execute_batch(curr, "INSERT INTO ...", rows)
Batch(name, params) ==
    /\ pc = "batch"
    /\ \/ Raise("OperationalError") /\ txn' = txn
       \/ \E r \in {execute_batch(catalog, tables, txn, name, params, batch)} :
              /\ txn' = r.txn
              /\ IF r.err # "none" THEN Raise(r.err) ELSE pc' = "commit" /\ error' = error
    /\ UNCHANGED <<stage, i, j, data, fetched, status, batch, stack, conns, catalog, tables, log>>

\* conn.commit()
Commit ==
    /\ pc = "commit"
    /\ \/ Raise("OperationalError") /\ UNCHANGED <<txn, catalog, tables>>
       \/ /\ catalog' = CommitCatalog(catalog, txn)
          /\ tables' = CommitTables(tables, txn)
          /\ txn' = NoTxn
          /\ pc' = "close" /\ error' = error
    /\ UNCHANGED <<stage, i, j, data, fetched, status, batch, stack, conns, log>>

\* Variant: no pause after the last (ticker, technical_indicator).
Close_NoPauseAfterLastPair ==
    /\ pc = "close"
    /\ conns' = conns - 1
    /\ stack' = <<>>
    /\ log' = Append(log, Event("persist", url, 0))
    /\ IF stage = "technical"
       THEN /\ i' = i
            /\ pc' = IF i = Len(tickers) /\ j = Len(technical_indicators) THEN "done" ELSE "short_sleep"
       ELSE IF i < Len(tickers) THEN pc' = "extract" /\ i' = i + 1
       ELSE pc' = "long_sleep" /\ i' = i
    /\ UNCHANGED <<stage, j, data, fetched, status, batch, txn, catalog, tables, error>>

\* curr.close(); conn.close(); the load function and the transform that
\* called it return to the loop.
Close ==
    /\ pc = "close"
    /\ conns' = conns - 1
    /\ stack' = <<>>
    /\ log' = Append(log, Event("persist", url, 0))
    /\ IF stage = "technical" THEN pc' = "short_sleep" /\ i' = i
       ELSE IF i < Len(tickers) THEN pc' = "extract" /\ i' = i + 1
       ELSE pc' = "long_sleep" /\ i' = i
    /\ UNCHANGED <<stage, j, data, fetched, status, batch, txn, catalog, tables, error>>

LoadSteps(name, params) == Connect \/ EnsureSchema(name) \/ Batch(name, params) \/ Commit \/ Close

load_hourly == stage = "hourly" /\ LoadSteps("hourly_data", HourlyParams)

load_technical == stage = "technical" /\ LoadSteps("technical_data", TechnicalParams)

\* time.sleep(100), then the second loop starts
long_sleep ==
    /\ pc = "long_sleep"
    /\ log' = Append(log, Event("sleep", NoUrl, LongPause))
    /\ stage' = "technical" /\ i' = 1 /\ j' = 1
    /\ pc' = "extract"
    /\ UNCHANGED <<data, fetched, status, batch, stack, conns, txn, catalog, tables, error>>

\* Variant: the loops nested the other way round, tickers innermost.
short_sleep_tickers_inner ==
    /\ pc = "short_sleep"
    /\ log' = Append(log, Event("sleep", NoUrl, ShortPause))
    /\ IF i < Len(tickers) THEN i' = i + 1 /\ j' = j /\ pc' = "extract"
       ELSE IF j < Len(technical_indicators) THEN i' = 1 /\ j' = j + 1 /\ pc' = "extract"
       ELSE j' = j /\ i' = i /\ pc' = "done"
    /\ UNCHANGED <<stage, data, fetched, status, batch, stack, conns, txn, catalog, tables, error>>

\* time.sleep(60), then the next (ticker, technical_indicator)
short_sleep ==
    /\ pc = "short_sleep"
    /\ log' = Append(log, Event("sleep", NoUrl, ShortPause))
    /\ IF j < Len(technical_indicators) THEN j' = j + 1 /\ i' = i /\ pc' = "extract"
       ELSE IF i < Len(tickers) THEN j' = 1 /\ i' = i + 1 /\ pc' = "extract"
       ELSE j' = j /\ i' = i /\ pc' = "done"
    /\ UNCHANGED <<stage, data, fetched, status, batch, stack, conns, txn, catalog, tables, error>>

Next == extract \/ transform_hourly \/ transform_technical \/ load_hourly \/ load_technical
        \/ long_sleep \/ short_sleep

Spec == Init /\ [][Next]_vars

\* The script is one thread that runs until it ends or raises.
FairSpec == Spec /\ WF_vars(Next)

\* ---- the normalizers alone, on any payload
NormInit ==
    /\ pc = "transform"
    /\ \E stg \in {"hourly", "technical"}, ij \in 1..Len(technical_indicators) :
         \E d \in NormPayloads(stg, technical_indicators[ij]) :
            /\ stage = stg /\ i = 1 /\ j = ij
            /\ data = d /\ fetched = d /\ status = 200
            /\ batch = <<>> /\ stack = <<>> /\ conns = 0 /\ txn = NoTxn
            /\ catalog = FreshStore.catalog /\ tables = FreshStore.tables
            /\ error = "none" /\ log = <<Event("fetch", Url(stg, 1, ij), 0)>>

NormNext == transform_hourly \/ transform_technical

NormSpec == NormInit /\ [][NormNext]_vars

\* ---- one load call, on any committed store
StoreInit ==
    /\ pc = "transform"
    /\ \E stg \in {"hourly", "technical"}, ij \in 1..Len(technical_indicators), s \in ConsistentStores :
         \E d \in StorePayloads(stg, technical_indicators[ij]) :
            /\ stage = stg /\ i = 1 /\ j = ij
            /\ data = d /\ fetched = d /\ status = 200
            /\ batch = <<>> /\ stack = <<>> /\ conns = 0 /\ txn = NoTxn
            /\ catalog = s.catalog /\ tables = s.tables
            /\ error = "none" /\ log = <<Event("fetch", Url(stg, 1, ij), 0)>>

StoreNext == transform_hourly \/ transform_technical \/ load_hourly \/ load_technical

StoreSpec == StoreInit /\ [][StoreNext]_vars

\* =================================================================== claims
StageTable == IF stage = "hourly" THEN "hourly_data" ELSE "technical_data"

\* Primary key of a row of the batch and of a committed row.
BatchKey(row) ==
    IF stage = "hourly" THEN <<Get(row, "symbol"), Get(row, "datetime")>>
    ELSE <<Get(row, "symbol"), Get(row, "datetime"), Get(row, "indicator")>>

RowKey(r) == IF stage = "hourly" THEN <<r[1], r[2]>> ELSE <<r[1], r[2], r[3]>>

CommittedKeys == {RowKey(r) : r \in tables[StageTable]}

BatchKeys == {BatchKey(batch[p]) : p \in 1..Len(batch)}

BatchConflict ==
    \/ \E p, q \in 1..Len(batch) : p # q /\ BatchKey(batch[p]) = BatchKey(batch[q])
    \/ \E p \in 1..Len(batch) : BatchKey(batch[p]) \in CommittedKeys

InLoad == pc \in {"connect", "schema", "batch", "commit", "close"}

\* C1: a batch with two rows of one primary key, or with a row whose key is
\* already committed, makes the batched insert fail with a unique violation
\* (unless the session is lost first) and nothing of it is committed; a batch
\* without conflict goes on to commit, and the commit adds every row of the
\* batch and nothing else.  The committed store changes at no other step, so
\* no non-empty strict subset of a batch is ever committed.
C1_AllOrNothing ==
    [][ /\ (pc = "batch" /\ BatchConflict
              => pc' = "aborted" /\ error' \in {"UniqueViolation", "OperationalError"})
        /\ (pc = "batch" /\ error' = "UniqueViolation" => BatchConflict)
        /\ (pc = "batch" /\ ~BatchConflict /\ error' # "OperationalError" => pc' = "commit")
        /\ (pc = "commit" /\ pc' = "close"
              => /\ ~BatchConflict
                 /\ BatchKeys \subseteq CommittedKeys'
                 /\ CommittedKeys' = CommittedKeys \cup BatchKeys
                 /\ Cardinality(tables'[StageTable]) = Cardinality(tables[StageTable]) + Len(batch)
                 /\ \A n \in TableNames \ {StageTable} : tables'[n] = tables[n])
        /\ (store' # store => pc = "commit" /\ pc' = "close")
        /\ (error' # "none" => store' = store)
      ]_vars

C1_Witness ==
    /\ pc = "aborted" /\ error = "UniqueViolation"
    /\ tables[StageTable] # {}
    /\ \E p \in 1..Len(batch) :
          /\ BatchKey(batch[p]) \notin CommittedKeys
          /\ \A q \in 1..Len(batch) : q # p => BatchKey(batch[q]) # BatchKey(batch[p])

\* C2: once a persist call has returned or failed, the connection it opened
\* is closed: outside a running load call no connection is open.
C2_ConnectionReleased == ~InLoad => conns = 0

\* C3: after a stage has failed nothing more happens (no fetch, normalize,
\* persist or pause, no store operation); the failing step itself commits
\* nothing, and no step ever removes a committed row or table.
C3_FailureAbortsRun ==
    [][ /\ (error # "none" => UNCHANGED vars)
        /\ (error' # "none" => pc' = "aborted" /\ store' = store)
        /\ catalog \subseteq catalog'
        /\ \A n \in TableNames : tables[n] \subseteq tables'[n]
      ]_vars

C3_Witness ==
    /\ pc = "aborted" /\ error # "none"
    /\ stage = "technical" /\ i < Len(tickers)
    /\ Cardinality(tables["hourly_data"]) >= Len(tickers)
    /\ tables["technical_data"] # {}

IsBar(e) == e.endpoint = "time_series"

IsInd(e) == e.endpoint \notin {"time_series", ""}

LongPauses == {q \in 1..Len(log) : log[q].op = "sleep" /\ log[q].secs = LongPause}

\* C4: an indicator fetch comes only after the bar stage has persisted every
\* instrument and the one long pause has followed; it comes directly after
\* a pause (the long one for the first pair, a short one after each other
\* pair); the persist of every pair, the last included, is followed by a
\* short pause; no pause precedes any bar-stage step.
C4_StageOrderAndPauses ==
    /\ Cardinality(LongPauses) <= 1
    /\ \A p \in 1..Len(log) :
          /\ (log[p].op = "fetch" /\ IsInd(log[p])
                => /\ \A t \in 1..Len(tickers) :
                         \E q \in 1..(p - 1) : log[q] = Event("persist", Url("hourly", t, 1), 0)
                   /\ \E q \in LongPauses : q < p
                   /\ p > 1 /\ log[p - 1].op = "sleep"
                   /\ (log[p - 1].secs = LongPause <=> ~\E q \in 1..(p - 1) : IsInd(log[q])))
          /\ (log[p].op = "persist" /\ IsInd(log[p])
                => IF p < Len(log) THEN log[p + 1] = Event("sleep", NoUrl, ShortPause)
                   ELSE pc = "short_sleep")
          /\ (log[p].op = "sleep" => \A q \in (p + 1)..Len(log) : ~IsBar(log[q]))
          /\ (log[p].op = "sleep" /\ log[p].secs = ShortPause
                => p > 1 /\ log[p - 1].op = "persist" /\ IsInd(log[p - 1]))
          /\ (log[p].op = "sleep" /\ log[p].secs = LongPause
                => p > 1 /\ log[p - 1].op = "persist" /\ IsBar(log[p - 1]))
    /\ (pc = "done" => log[Len(log)] = Event("sleep", NoUrl, ShortPause))

C4_Witness ==
    /\ pc = "done"
    /\ Cardinality({p \in 1..Len(log) : log[p].op = "sleep" /\ log[p].secs = ShortPause})
          = Len(tickers) * Len(technical_indicators)

IsSuccess(code) == code \in 200..299

\* C5: fetch returns a payload only for a success status: after a response
\* with a non-success status the run has failed in fetch, and no normalize
\* or persist follows that fetch.
C5_FetchFailsOnBadStatus ==
    (status # 0 /\ ~IsSuccess(status))
        => pc = "aborted" /\ error # "none" /\ log[Len(log)].op = "fetch"

ExpectedHourlyTable == [name |-> "hourly_data",
                        cols |-> <<"ticker", "datetime", "open", "high", "low", "close", "volume">>,
                        pk |-> {"ticker", "datetime"}]

ExpectedTechnicalTable == [name |-> "technical_data",
                           cols |-> <<"ticker", "datetime", "indicator", "value">>,
                           pk |-> {"ticker", "datetime", "indicator"}]

ExpectedTable == IF stage = "hourly" THEN ExpectedHourlyTable ELSE ExpectedTechnicalTable

EnsureAgain(tx) == IF stage = "hourly" THEN create_hourly_table(catalog, tx) ELSE create_technical_table(catalog, tx)

ValidBarRecord(rec) ==
    /\ \A k \in {"datetime", "open", "high", "low", "close", "volume"} : HasKey(rec, k)
    /\ strptime(Get(rec, "datetime")).err = "none"
    /\ \A k \in {"open", "high", "low", "close"} : py_float(Get(rec, k)).err = "none"
    /\ py_int(Get(rec, "volume")).err = "none"

ValidBarPayload(rd) ==
    /\ "values" \in DOMAIN rd
    /\ (rd.values # <<>> => HasSymbol(rd))
    /\ \A p \in 1..Len(rd.values) : ValidBarRecord(rd.values[p])

Transformed == Len(log) > 0 /\ log[Len(log)].op # "fetch"

\* C7: for a valid bar payload transform_hourly raises nothing and hands on
\* one row per record, in order, whose symbol is the metadata symbol, whose
\* datetime is the record's parsed datetime, whose open, high, low and close
\* are the record's decoded decimals and whose volume is its decoded integer.
C7_BarRows ==
    (stage = "hourly" /\ Transformed /\ ValidBarPayload(fetched))
        => /\ error = "none"
           /\ Len(batch) = Len(fetched.values)
           /\ \A p \in 1..Len(batch) :
                 LET rec == fetched.values[p]
                     row == batch[p]
                 IN  /\ Get(row, "symbol") = fetched.meta.symbol
                     /\ Get(row, "datetime") = strptime(Get(rec, "datetime")).val
                     /\ Get(row, "open") = py_float(Get(rec, "open")).val
                     /\ Get(row, "high") = py_float(Get(rec, "high")).val
                     /\ Get(row, "low") = py_float(Get(rec, "low")).val
                     /\ Get(row, "close") = py_float(Get(rec, "close")).val
                     /\ Get(row, "volume") = py_int(Get(rec, "volume")).val
                     /\ Get(row, "volume").t = "int"

C7_Witness ==
    /\ stage = "hourly" /\ pc = "connect"
    /\ fetched = Payload("XOM", <<RecA2, RecWithSymbol>>)
    /\ Len(batch) = 2

ValidIndRecord(rec, indicator) ==
    /\ HasKey(rec, "datetime") /\ HasKey(rec, indicator)
    /\ strptime(Get(rec, "datetime")).err = "none"
    /\ py_float(Get(rec, indicator)).err = "none"

ValidIndPayload(rd, indicator) ==
    /\ "values" \in DOMAIN rd
    /\ (rd.values # <<>> => HasSymbol(rd))
    /\ \A p \in 1..Len(rd.values) : ValidIndRecord(rd.values[p], indicator)

\* C8: for a valid indicator payload whose records all have the key
\* indicator_name, wherever it stands among the record's keys,
\* transform_technical hands on one row per record, in order, with the
\* metadata symbol, the parsed datetime, indicator = indicator_name and the
\* decoded value at that key.
C8_IndicatorRows ==
    (stage = "technical" /\ Transformed /\ ValidIndPayload(fetched, technical_indicators[j]))
        => /\ error = "none"
           /\ Len(batch) = Len(fetched.values)
           /\ \A p \in 1..Len(batch) :
                 LET rec == fetched.values[p]
                     row == batch[p]
                 IN  /\ Get(row, "symbol") = fetched.meta.symbol
                     /\ Get(row, "datetime") = strptime(Get(rec, "datetime")).val
                     /\ Get(row, "indicator") = Str(technical_indicators[j])
                     /\ Get(row, "value") = py_float(Get(rec, technical_indicators[j])).val

NormalizerRunning == stack # <<>> /\ Head(stack) \in {"transform_hourly", "transform_technical"}

\* C9 as stated: a normalizer call performs no store or network operation
\* and leaves its payload as it was given.
C9_NormalizerPure ==
    NormalizerRunning => data = fetched /\ conns = 0 /\ log[Len(log)].op # "fetch"

\* The record transform_hourly leaves in place of `rec`: every key where it
\* was, symbol added last when the record had none, the six fields decoded.
Rewritten(rec, symbol) ==
    LET base == IF HasKey(rec, "symbol") THEN rec ELSE Append(rec, <<"symbol", symbol>>)
    IN  [q \in 1..Len(base) |->
            LET k == base[q][1]
            IN  <<k, IF k = "symbol" THEN symbol
                     ELSE IF k = "datetime" THEN strptime(base[q][2]).val
                     ELSE IF k = "volume" THEN py_int(base[q][2]).val
                     ELSE IF k \in {"open", "high", "low", "close"} THEN py_float(base[q][2]).val
                     ELSE base[q][2]>>]

Normalized == Len(log) > 0 /\ log[Len(log)].op \in {"normalize", "persist"}

IndicatorNormalized == \E q \in 1..Len(log) : log[q].op = "normalize" /\ IsInd(log[q])

\* C9 amended: transform_technical leaves its payload unchanged and builds
\* its rows from it alone; transform_hourly rewrites the records of the
\* payload's values sequence in place and that sequence is its row sequence,
\* every row being determined by the record as fetched; neither variant
\* fetches; each ends by calling its load function, so a connection is open
\* only inside a normalizer call.
C9_NormalizerEffects ==
    /\ (stage = "technical" /\ IndicatorNormalized => data = fetched)
    /\ (stage = "technical" /\ IndicatorNormalized /\ Normalized /\ error = "none"
          => /\ Len(batch) = Len(fetched.values)
             /\ \A p \in 1..Len(batch) :
                   batch[p] = << <<"symbol", fetched.meta.symbol>>,
                                 <<"datetime", strptime(Get(fetched.values[p], "datetime")).val>>,
                                 <<"indicator", Str(fetched.values[p][2][1])>>,
                                 <<"value", py_float(Get(fetched.values[p], technical_indicators[j])).val>> >>)
    /\ (stage = "hourly" /\ Normalized /\ error = "none"
          => /\ data = [fetched EXCEPT !.values = batch]
             /\ Len(batch) = Len(fetched.values)
             /\ \A p \in 1..Len(batch) : batch[p] = Rewritten(fetched.values[p], fetched.meta.symbol))
    /\ (conns > 0 => stack = IF stage = "hourly" THEN <<"transform_hourly", "load_hourly">>
                             ELSE <<"transform_technical", "load_technical">>)
    /\ (NormalizerRunning => log[Len(log)].op = "normalize")

C9_Witness ==
    /\ stage = "hourly" /\ pc = "batch" /\ conns = 1
    /\ NormalizerRunning
    /\ Len(batch) = 2 /\ data # fetched

Iteration(u) == <<Event("fetch", u, 0), Event("normalize", u, 0), Event("persist", u, 0)>>

RECURSIVE BarPart(_)
BarPart(k) == IF k = 0 THEN <<>> ELSE BarPart(k - 1) \o Iteration(Url("hourly", k, 1))

RECURSIVE IndPart(_)
IndPart(k) ==
    IF k = 0 THEN <<>>
    ELSE IndPart(k - 1)
         \o Iteration(Url("technical", ((k - 1) \div Len(technical_indicators)) + 1,
                                       ((k - 1) % Len(technical_indicators)) + 1))
         \o <<Event("sleep", NoUrl, ShortPause)>>

\* What a run without failure does, in order.
ExpectedLog ==
    BarPart(Len(tickers)) \o <<Event("sleep", NoUrl, LongPause)>>
        \o IndPart(Len(tickers) * Len(technical_indicators))

IsPrefix(a, b) == Len(a) <= Len(b) /\ SubSeq(b, 1, Len(a)) = a

C10_Sequential ==
    /\ (error = "none" => IsPrefix(log, ExpectedLog))
    /\ (pc = "done" => error = "none" /\ log = ExpectedLog)
    /\ (error = "none" /\ pc = "transform" => log[Len(log)].op = "fetch")
    /\ (error = "none" /\ InLoad => log[Len(log)].op = "normalize")
    /\ conns \in {0, 1}

\* C10: a run in which nothing fails ends, having issued one fetch per
\* instrument and then one per (instrument, indicator) pair in list order,
\* each followed by one normalize and one persist before the next fetch,
\* with never more than one connection open.
C10_RunCompletesInOrder == []C10_Sequential /\ <>(pc \in {"done", "aborted"})

C10_Witness ==
    /\ pc = "done" /\ error = "none"
    /\ Len(SelectSeq(log, LAMBDA e : e.op = "fetch")) = Len(tickers) * (1 + Len(technical_indicators))
    /\ conns = 0

====
